---- MODULE Spec2Model ----
(***************************************************************************)
(* Model of DiscoveryHostsGO: a producer (main) expands the configured IP   *)
(* ranges, pushes every address on a buffered channel, and a fixed pool of  *)
(* workers pings each address, asks its SNMP sysName and registers the host. *)
(*                                                                         *)
(* The repository holds two variants of the program that differ only in    *)
(* the range expansion: src/main.go (dashed-octet ranges, expandRange) and  *)
(* src/unnamed/part_000 (CIDR blocks, expandCIDR).  The variable prog says  *)
(* which of the two is running.                                            *)
(*                                                                         *)
(* Strings are TLA+ strings; a character is a string of length 1.          *)
(***************************************************************************)
EXTENDS Integers, Sequences, FiniteSets, TLC

VARIABLES
    prog,       \* "range" (src/main.go) or "cidr" (src/unnamed/part_000)
    config,     \* the global Config: Workers and Ranges
    mainPc,     \* where main is
    w,          \* main's worker-start loop counter
    ri,         \* main's index in config.Ranges (1-based)
    ips,        \* the expansion main is sending
    si,         \* main's index in ips (1-based)
    cidr,       \* expandCIDR's locals: ip, ipnet, ips and the iteration count
    jobs,       \* the channel: buf, cap, closed
    wg,         \* the WaitGroup counter
    wpc,        \* where each worker is
    wjob,       \* the job each worker holds
    enq,        \* history: one record per address pushed on jobs, in order
    deq,        \* history: the ids of the jobs received, in order
    rangeErrs,  \* history: the indices of the ranges logged as errors
    loadErr,    \* history: loadConfig failed to read or parse the file
    sess        \* the number of SNMP sessions that are open

vars == <<prog, config, mainPc, w, ri, ips, si, cidr, jobs, wg, wpc, wjob,
          enq, deq, rangeErrs, loadErr, sess>>

----------------------------------------------------------------------------
(* Bounds of the model *)

\* the largest worker count a configuration names
MaxWorkers == 2
\* the longest list of ranges a configuration names
MaxRanges == 2
\* the largest octet value the enumerated dashed-octet fields name
MaxVal == 2
\* bits of one byte of an address: the model's bytes count modulo 2^ByteBits
ByteBits == 2

\* bytes of an IPv4 address (net.IPv4len)
IPv4len == 4

ByteMod == 2 ^ ByteBits
ByteMax == ByteMod - 1
AddrBits == IPv4len * ByteBits

----------------------------------------------------------------------------
(* strings, strconv, fmt *)

Digits == <<"0", "1", "2", "3", "4", "5", "6", "7", "8", "9">>

IsDigit(c) == \E i \in 1..10 : Digits[i] = c

DigitVal(c) == (CHOOSE i \in 1..10 : Digits[i] = c) - 1

CharAt(s, i) == SubSeq(s, i, i)

\* strings.Contains(s, c) for a one-character c
Contains(s, c) == \E i \in 1..Len(s) : CharAt(s, i) = c

\* strings.Index(s, c) for a one-character c, 1-based; 0 when absent
IndexOf(s, c) ==
    IF Contains(s, c)
    THEN CHOOSE i \in 1..Len(s) :
            /\ CharAt(s, i) = c
            /\ \A j \in 1..(i - 1) : CharAt(s, j) # c
    ELSE 0

\* strings.Split(s, sep) for a one-character sep: always at least one field
RECURSIVE Split(_, _)
Split(s, sep) ==
    LET i == IndexOf(s, sep)
    IN  IF i = 0
        THEN <<s>>
        ELSE <<SubSeq(s, 1, i - 1)>> \o Split(SubSeq(s, i + 1, Len(s)), sep)

\* strings.TrimSpace, for the space character
RECURSIVE TrimLeft(_)
TrimLeft(s) ==
    IF Len(s) > 0 /\ Head(s) = " " THEN TrimLeft(Tail(s)) ELSE s

RECURSIVE TrimRight(_)
TrimRight(s) ==
    IF Len(s) > 0 /\ CharAt(s, Len(s)) = " "
    THEN TrimRight(SubSeq(s, 1, Len(s) - 1))
    ELSE s

TrimSpace(s) == TrimRight(TrimLeft(s))

AllDigits(s) == \A i \in 1..Len(s) : IsDigit(CharAt(s, i))

\* the digit loop of strconv.Atoi: n = n*10 + digit
RECURSIVE DigitsVal(_, _)
DigitsVal(s, n) ==
    IF Len(s) = 0 THEN n ELSE DigitsVal(Tail(s), n * 10 + DigitVal(Head(s)))

\* strconv.Atoi on a string short enough not to overflow: an optional sign,
\* then one or more decimal digits
Atoi(s) ==
    IF Len(s) = 0
    THEN [ok |-> FALSE, val |-> 0]
    ELSE LET signed == Head(s) = "-" \/ Head(s) = "+"
             body == IF signed THEN Tail(s) ELSE s
         IN  IF Len(body) < 1 \/ ~AllDigits(body)
             THEN [ok |-> FALSE, val |-> 0]
             ELSE [ok |-> TRUE,
                   val |-> IF Head(s) = "-"
                           THEN 0 - DigitsVal(body, 0)
                           ELSE DigitsVal(body, 0)]

\* the %d verb of fmt.Sprintf
RECURSIVE FormatNat(_)
FormatNat(n) ==
    IF n < 10
    THEN Digits[n + 1]
    ELSE FormatNat(n \div 10) \o Digits[(n % 10) + 1]

FormatInt(n) == IF n < 0 THEN "-" \o FormatNat(0 - n) ELSE FormatNat(n)

\* mutant of SprintfIP: the last two arguments are swapped
SprintfIPSwapped(a, b, c, d) ==
    FormatInt(a) \o "." \o FormatInt(b) \o "." \o FormatInt(d) \o "."
        \o FormatInt(c)

\* fmt.Sprintf("%d.%d.%d.%d", a, b, c, d)
SprintfIP(a, b, c, d) ==
    FormatInt(a) \o "." \o FormatInt(b) \o "." \o FormatInt(c) \o "."
        \o FormatInt(d)

----------------------------------------------------------------------------
(* src/main.go: expandRange *)

\* a Go (result, error) pair: err is "" for nil
Ok(v) == [val |-> v, err |-> ""]
Fail(e) == [val |-> <<>>, err |-> e]

\* mutant of OctetLoop: the upper bound is left out (i < end)
RECURSIVE OctetLoopExclusive(_, _, _)
OctetLoopExclusive(i, end, res) ==
    IF i < end THEN OctetLoopExclusive(i + 1, end, Append(res, i)) ELSE res

\* for i := start; i <= end; i++ { res = append(res, i) }
RECURSIVE OctetLoop(_, _, _)
OctetLoop(i, end, res) ==
    IF i <= end THEN OctetLoop(i + 1, end, Append(res, i)) ELSE res

\* mutant of expandOctet: a field lo-hi with lo > hi is an error
expandOctetChecked(s) ==
    IF Contains(s, "-")
    THEN LET bounds == Split(s, "-")
             start == Atoi(bounds[1])
             end == Atoi(bounds[2])
         IN  IF ~start.ok THEN Fail("atoi")
             ELSE IF ~end.ok THEN Fail("atoi")
             ELSE IF start.val > end.val THEN Fail("order")
             ELSE Ok(OctetLoop(start.val, end.val, <<>>))
    ELSE LET v == Atoi(s)
         IN  IF ~v.ok THEN Fail("atoi") ELSE Ok(<<v.val>>)

\* the closure expandOctet of expandRange
expandOctet(s) ==
    IF Contains(s, "-")
    THEN LET bounds == Split(s, "-")
             start == Atoi(bounds[1])
             end == Atoi(bounds[2])
         IN  IF ~start.ok THEN Fail("atoi")
             ELSE IF ~end.ok THEN Fail("atoi")
             ELSE Ok(OctetLoop(start.val, end.val, <<>>))
    ELSE LET v == Atoi(s)
         IN  IF ~v.ok THEN Fail("atoi") ELSE Ok(<<v.val>>)

\* for _, d := range o4 { ips = append(ips, Sprintf(a, b, c, d)) }
RECURSIVE LoopD(_, _, _, _, _)
LoopD(a, b, c, o4, acc) ==
    IF o4 = <<>> THEN acc
    ELSE LoopD(a, b, c, Tail(o4), Append(acc, SprintfIP(a, b, c, Head(o4))))

\* for _, c := range o3 { ... }
RECURSIVE LoopC(_, _, _, _, _)
LoopC(a, b, o3, o4, acc) ==
    IF o3 = <<>> THEN acc
    ELSE LoopC(a, b, Tail(o3), o4, LoopD(a, b, Head(o3), o4, acc))

\* for _, b := range o2 { ... }
RECURSIVE LoopB(_, _, _, _, _)
LoopB(a, o2, o3, o4, acc) ==
    IF o2 = <<>> THEN acc
    ELSE LoopB(a, Tail(o2), o3, o4, LoopC(a, Head(o2), o3, o4, acc))

\* for _, a := range o1 { ... }
RECURSIVE LoopA(_, _, _, _, _)
LoopA(o1, o2, o3, o4, acc) ==
    IF o1 = <<>> THEN acc
    ELSE LoopA(Tail(o1), o2, o3, o4, LoopB(Head(o1), o2, o3, o4, acc))

expandRange(ipRange) ==
    LET parts == Split(ipRange, ".")
    IN  IF Len(parts) # 4
        THEN Fail("formato invalido")
        ELSE LET o1 == expandOctet(parts[1])
                 o2 == expandOctet(parts[2])
                 o3 == expandOctet(parts[3])
                 o4 == expandOctet(parts[4])
             IN  IF o1.err # "" THEN Fail(o1.err)
                 ELSE IF o2.err # "" THEN Fail(o2.err)
                 ELSE IF o3.err # "" THEN Fail(o3.err)
                 ELSE IF o4.err # "" THEN Fail(o4.err)
                 ELSE Ok(LoopA(o1.val, o2.val, o3.val, o4.val, <<>>))

----------------------------------------------------------------------------
(* src/unnamed/part_000: expandCIDR, inc, and what they use of package net *)

Pow2(n) == 2 ^ n

\* a & b on bytes
RECURSIVE BitAnd(_, _, _)
BitAnd(a, b, n) ==
    IF n = 0 THEN 0
    ELSE 2 * BitAnd(a \div 2, b \div 2, n - 1) + ((a % 2) * (b % 2))

\* net.CIDRMask(ones, bits): the leading `ones` bits set, byte by byte
MaskByte(k) == ByteMod - Pow2(ByteBits - k)

Min(a, b) == IF a < b THEN a ELSE b
Max(a, b) == IF a > b THEN a ELSE b

CIDRMask(ones) ==
    [j \in 1..IPv4len |->
        MaskByte(Min(ByteBits, Max(0, ones - (j - 1) * ByteBits)))]

\* ip.Mask(mask)
IPMask(ip, mask) == [j \in 1..IPv4len |-> BitAnd(ip[j], mask[j], ByteBits)]

\* ipnet.Contains(ip)
NetContains(ipnet, ip) ==
    \A j \in 1..IPv4len :
        BitAnd(ipnet.IP[j], ipnet.Mask[j], ByteBits)
            = BitAnd(ip[j], ipnet.Mask[j], ByteBits)

\* ip.String() of a 4-byte address
IPString(ip) ==
    FormatNat(ip[1]) \o "." \o FormatNat(ip[2]) \o "." \o FormatNat(ip[3])
        \o "." \o FormatNat(ip[4])

\* one decimal field of a dotted address: 1 to 3 digits, no leading zero, at
\* most the largest byte
IsOctet(f) ==
    /\ Len(f) >= 1
    /\ Len(f) <= 3
    /\ AllDigits(f)
    /\ (Len(f) > 1 => Head(f) # "0")
    /\ DigitsVal(f, 0) <= ByteMax

\* net.ParseCIDR(s) for IPv4: "a.b.c.d/n" with 0 <= n <= the address bits
ParseCIDR(s) ==
    LET i == IndexOf(s, "/")
        addr == SubSeq(s, 1, i - 1)
        mask == SubSeq(s, i + 1, Len(s))
        f == Split(addr, ".")
    IN  IF i = 0 THEN Fail("invalid CIDR address")
        ELSE IF Len(f) # 4 \/ \E k \in 1..Len(f) : ~IsOctet(f[k])
        THEN Fail("invalid CIDR address")
        ELSE IF Len(mask) = 0 \/ ~AllDigits(mask) \/ DigitsVal(mask, 0) > AddrBits
        THEN Fail("invalid CIDR address")
        ELSE LET ip == [k \in 1..IPv4len |-> DigitsVal(f[k], 0)]
                 m == CIDRMask(DigitsVal(mask, 0))
             IN  Ok([ip |-> ip, ipnet |-> [IP |-> IPMask(ip, m), Mask |-> m]])

\* inc(ip): for j := len(ip)-1; j >= 0; j-- { ip[j]++; if ip[j] > 0 { break } }
RECURSIVE incFrom(_, _)
incFrom(ip, j) ==
    IF j < 1 THEN ip
    ELSE LET next == [ip EXCEPT ![j] = (ip[j] + 1) % ByteMod]
         IN  IF next[j] > 0 THEN next ELSE incFrom(next, j - 1)

inc(ip) == incFrom(ip, IPv4len)

\* mutant of cidrResult: a block of exactly 2 loses its addresses too
cidrResultFromTwo(list) ==
    IF Len(list) >= 2 THEN SubSeq(list, 2, Len(list) - 1) ELSE list

\* the end of expandCIDR: drop network and broadcast of a block of more than 2
cidrResult(list) ==
    IF Len(list) > 2 THEN SubSeq(list, 2, Len(list) - 1) ELSE list

\* the enumeration loop of expandCIDR is stepped one iteration at a time; the
\* model stops it once it has run one iteration more than there are
\* addresses, when ip has taken a value it had before
MaxIter == Pow2(AddrBits) + 1

NoCIDR == [ip |-> <<>>, ipnet |-> <<>>, ips |-> <<>>]

----------------------------------------------------------------------------
(* the configurations the model runs the program on *)

\* every sequence of distinct elements of S of length at most n
SeqsUpTo(S, n) ==
    {s \in UNION {[1..k -> S] : k \in 0..n} :
        \A i, j \in 1..Len(s) : i # j => s[i] # s[j]}

\* a block of 4 addresses: "0.0.0.0/30" in 32 bits
SmallCIDR == "0.0.0.0/" \o FormatNat(AddrBits - 2)

\* a prefix longer than the address
BadCIDR == "1.1.1.1/" \o FormatNat(AddrBits + 1)

\* the ranges of the pipeline's configurations: a configuration lists some
\* of them, each once, in any order
RangeSpecsOf(p) ==
    IF p = "range"
    THEN {"1.1.1.1-2", " 3.3.3.3 ", "1.1.1", "1.1.1.1-1-x", SmallCIDR}
    ELSE {SmallCIDR, BadCIDR, "1.1.1.1-2", " 1.1.1 "}

\* the configurations of the runs checked under fairness: the ranges of the
\* variant's own grammar, one of two addresses, one of one address, one
\* that is an error and, for expandRange, one with lo > hi, for every
\* worker count
FairRangeSpecsOf(p) ==
    IF p = "range"
    THEN {"1.1.1.1-2", " 3.3.3.3 ", "1.1.1", "1.1.1.2-1"}
    ELSE {SmallCIDR, BadCIDR, " 1.1.1 "}

FairConfigs ==
    {[Workers |-> n, Ranges |-> rs] :
        n \in 0..MaxWorkers, rs \in SeqsUpTo(FairRangeSpecsOf(prog), MaxRanges)}

PipelineConfigs ==
    {[Workers |-> n, Ranges |-> rs] :
        n \in 0..MaxWorkers, rs \in SeqsUpTo(RangeSpecsOf(prog), MaxRanges)}

\* the dashed-octet inputs expandRange is run on: four fields, the two outer
\* ones from a few spellings, the two inner ones from every single value and
\* every lo-hi up to MaxVal and from spellings that are no plain number, and
\* some inputs that have no four fields
FieldsOuter == {"10", "0", "1-2", "x", "+1"}

FieldsInner ==
    {FormatNat(n) : n \in 0..MaxVal}
        \cup {FormatNat(a) \o "-" \o FormatNat(b) : a, b \in 0..MaxVal}
        \cup {"5", "10", "01", "+2", "x", "", "1-", "-1", "1-2-3", "1-2-x",
              "256"}

RangeInputs ==
    {a \o "." \o b \o "." \o c \o "." \o d :
        a, b \in FieldsOuter, c, d \in FieldsInner}
        \cup {"", "1", "1.1.1", "1.1.1.1.1"}

RangeConfigs == {[Workers |-> 0, Ranges |-> <<r>>] : r \in RangeInputs}

\* the CIDR inputs expandCIDR is run on: a few addresses under every prefix
\* length from 0 to one more than the address has bits, and some inputs
\* net.ParseCIDR rejects
TopByte == FormatNat(ByteMax)

CIDRAddrs ==
    {"0.0.0.0",
     TopByte \o "." \o TopByte \o "." \o TopByte \o "." \o TopByte,
     TopByte \o "." \o TopByte \o "." \o TopByte \o ".0",
     "1.0." \o TopByte \o "." \o TopByte,
     "0." \o TopByte \o ".1.2"}

CIDRInputs ==
    {a \o "/" \o FormatNat(n) : a \in CIDRAddrs, n \in 0..(AddrBits + 1)}
        \cup {"0.0.0.0/", "0.0.0.0/x", "0.0.0/1", "01.0.0.0/1", "0.0.0.0/1/1",
              FormatNat(ByteMax + 1) \o ".0.0.0/1", "0.0.0.x/1"}

CIDRConfigs == {[Workers |-> 0, Ranges |-> <<r>>] : r \in CIDRInputs}

\* every range a configuration of the model names, as main passes it on
RangeUniverse ==
    {TrimSpace(r) :
        r \in RangeSpecsOf("range") \cup RangeSpecsOf("cidr")
                \cup FairRangeSpecsOf("range") \cup FairRangeSpecsOf("cidr")
                \cup RangeInputs \cup CIDRInputs}

\* expandRange and net.ParseCIDR on each of them
expandRangeOf == [r \in RangeUniverse |-> expandRange(r)]

ParseCIDROf == [r \in RangeUniverse |-> ParseCIDR(r)]

----------------------------------------------------------------------------
(* the channel jobs and the history of what passes through it *)

\* mutant of makeChan: the buffer has room for one address more
makeChanRoomy(n) == [buf |-> <<>>, cap |-> n + 1, closed |-> FALSE]

\* make(chan string, n)
makeChan(n) == [buf |-> <<>>, cap |-> n, closed |-> FALSE]

\* mutant of chanCanSend: a send never blocks
chanCanSendAlways(ch) == TRUE

\* a send proceeds when the buffer has room (with no room and no buffer a
\* send needs a receiver, and every receiver leaves room when it receives)
chanCanSend(ch) == Len(ch.buf) < ch.cap

\* mutant of chanSend: the element goes to the front of the buffer
chanSendFront(ch, x) == [ch EXCEPT !.buf = <<x>> \o @]

\* jobs <- x
chanSend(ch, x) == [ch EXCEPT !.buf = Append(@, x)]

\* mutant of chanRecv: the received element stays in the buffer
chanRecvKeeps(ch) == ch

\* a receive takes the oldest element off the buffer
chanRecv(ch) == [ch EXCEPT !.buf = Tail(@)]

\* mutant of chanClose: the channel is never closed
chanCloseForgotten(ch) == ch

\* close(jobs)
chanClose(ch) == [ch EXCEPT !.closed = TRUE]

\* the history record of one pushed address: the range it came from, its
\* state in the per-address state machine, who received it and how often
\* each stage ran on it
NewJob(ip, r) ==
    [ip |-> ip, range |-> r, st |-> "Queued", recv |-> 0, by |-> {},
     pings |-> 0, pingOk |-> FALSE, snmps |-> 0, snmpOk |-> FALSE,
     regs |-> 0]

NoJob == [ip |-> "", id |-> 0]

\* the four returns of getSNMPName
SNMPOutcomes == {"ok", "connect", "query", "type"}

\* g.Connect() fails on the connect return and opens the session g.Conn on
\* the three others
snmpConnected(r) == r # "connect"

\* mutant of snmpDeferred: no close is deferred
snmpDeferredNone(r) == <<>>

\* defer g.Conn.Close(): the calls deferred when getSNMPName returns by r;
\* the defer statement stands after the return of the connect failure
snmpDeferred(r) == IF snmpConnected(r) THEN <<"g.Conn.Close">> ELSE <<>>

\* getSNMPName(ip) returning by r: its error, the sessions Connect opened
\* and the sessions the deferred calls closed
getSNMPName(r) ==
    [err |-> r # "ok",
     opened |-> IF snmpConnected(r) THEN 1 ELSE 0,
     closed |-> Len(SelectSeq(snmpDeferred(r), LAMBDA c : c = "g.Conn.Close"))]

Terminal == {"Unreachable", "IdentityFailed", "Registered", "RegistrationFailed"}

----------------------------------------------------------------------------
(* main *)

ZeroConfig == [Workers |-> 0, Ranges |-> <<>>]

Init ==
    /\ prog \in {"range", "cidr"}
    /\ config = ZeroConfig
    /\ mainPc = "load"
    /\ w = 0
    /\ ri = 0
    /\ ips = <<>>
    /\ si = 0
    /\ cidr = NoCIDR
    /\ jobs = makeChan(0)
    /\ wg = 0
    /\ wpc = [i \in 1..MaxWorkers |-> "none"]
    /\ wjob = [i \in 1..MaxWorkers |-> NoJob]
    /\ enq = <<>>
    /\ deq = <<>>
    /\ rangeErrs = {}
    /\ loadErr = FALSE
    /\ sess = 0

\* loadConfig("discovery.conf") returns: config holds what the file says
LoadConfig(cfgs) ==
    /\ mainPc = "load"
    /\ \E c \in cfgs : config' = c
    /\ mainPc' = "make"
    /\ UNCHANGED <<loadErr, sess>>
    /\ UNCHANGED <<prog, w, ri, ips, si, cidr, jobs, wg, wpc, wjob, enq, deq,
                   rangeErrs>>

\* mutant of logFatalf: log.Fatalf returns and main goes on
logFatalfReturns == "make"

\* log.Fatalf logs and calls os.Exit(1): where main is after it
logFatalf == "fatal"

\* loadConfig fails to read or to parse the file: log.Fatalf ends the process
LoadConfigFail ==
    /\ mainPc = "load"
    /\ loadErr' = TRUE
    /\ mainPc' = logFatalf
    /\ UNCHANGED sess
    /\ UNCHANGED <<prog, config, w, ri, ips, si, cidr, jobs, wg, wpc, wjob,
                   enq, deq, rangeErrs>>

\* jobs := make(chan string, config.Workers); var wg sync.WaitGroup
MainMake ==
    /\ mainPc = "make"
    /\ jobs' = makeChan(config.Workers)
    /\ wg' = 0
    /\ w' = 0
    /\ mainPc' = "spawn"
    /\ UNCHANGED <<loadErr, sess>>
    /\ UNCHANGED <<prog, config, ri, ips, si, cidr, wpc, wjob, enq, deq,
                   rangeErrs>>

\* for w := 0; w < config.Workers; w++ { wg.Add(1); go worker(&wg, jobs) }
MainSpawn ==
    /\ mainPc = "spawn"
    /\ w < config.Workers
    /\ wg' = wg + 1
    /\ wpc' = [wpc EXCEPT ![w + 1] = "recv"]
    /\ w' = w + 1
    /\ UNCHANGED <<loadErr, sess>>
    /\ UNCHANGED <<prog, config, mainPc, ri, ips, si, cidr, jobs, wjob, enq,
                   deq, rangeErrs>>

MainSpawnDone ==
    /\ mainPc = "spawn"
    /\ ~(w < config.Workers)
    /\ ri' = 1
    /\ mainPc' = "range"
    /\ UNCHANGED <<loadErr, sess>>
    /\ UNCHANGED <<prog, config, w, ips, si, cidr, jobs, wg, wpc, wjob, enq,
                   deq, rangeErrs>>

\* the range main is at, after strings.TrimSpace
CurRange == TrimSpace(config.Ranges[ri])

\* src/main.go: ips, err := expandRange(r); err != nil: log and continue
MainExpandRangeErr ==
    /\ prog = "range"
    /\ mainPc = "range"
    /\ ri <= Len(config.Ranges)
    /\ expandRangeOf[CurRange].err # ""
    /\ rangeErrs' = rangeErrs \cup {ri}
    /\ ri' = ri + 1
    /\ UNCHANGED <<loadErr, sess>>
    /\ UNCHANGED <<prog, config, mainPc, w, ips, si, cidr, jobs, wg, wpc,
                   wjob, enq, deq>>

\* src/main.go: ips, err := expandRange(r); then the loop that sends ips
MainExpandRangeOk ==
    /\ prog = "range"
    /\ mainPc = "range"
    /\ ri <= Len(config.Ranges)
    /\ expandRangeOf[CurRange].err = ""
    /\ ips' = expandRangeOf[CurRange].val
    /\ si' = 1
    /\ mainPc' = "send"
    /\ UNCHANGED <<loadErr, sess>>
    /\ UNCHANGED <<prog, config, w, ri, cidr, jobs, wg, wpc, wjob, enq, deq,
                   rangeErrs>>

\* part_000: r contains "/" and net.ParseCIDR fails: log and continue
MainCIDRErr ==
    /\ prog = "cidr"
    /\ mainPc = "range"
    /\ ri <= Len(config.Ranges)
    /\ Contains(CurRange, "/")
    /\ ParseCIDROf[CurRange].err # ""
    /\ rangeErrs' = rangeErrs \cup {ri}
    /\ ri' = ri + 1
    /\ UNCHANGED <<loadErr, sess>>
    /\ UNCHANGED <<prog, config, mainPc, w, ips, si, cidr, jobs, wg, wpc,
                   wjob, enq, deq>>

\* part_000: r contains "/": expandCIDR parses it and enters its loop at
\* ip.Mask(ipnet.Mask) with no address collected
MainCIDRStart ==
    /\ prog = "cidr"
    /\ mainPc = "range"
    /\ ri <= Len(config.Ranges)
    /\ Contains(CurRange, "/")
    /\ ParseCIDROf[CurRange].err = ""
    /\ LET p == ParseCIDROf[CurRange].val
       IN  cidr' = [ip |-> IPMask(p.ip, p.ipnet.Mask), ipnet |-> p.ipnet,
                    ips |-> <<>>]
    /\ mainPc' = "cidrloop"
    /\ UNCHANGED <<loadErr, sess>>
    /\ UNCHANGED <<prog, config, w, ri, ips, si, jobs, wg, wpc, wjob, enq,
                   deq, rangeErrs>>

\* expandCIDR: one iteration: ips = append(ips, ip.String()); inc(ip)
CIDRLoopStep ==
    /\ mainPc = "cidrloop"
    /\ NetContains(cidr.ipnet, cidr.ip)
    /\ Len(cidr.ips) < MaxIter
    /\ cidr' = [cidr EXCEPT !.ips = Append(@, IPString(cidr.ip)),
                            !.ip = inc(@)]
    /\ UNCHANGED <<loadErr, sess>>
    /\ UNCHANGED <<prog, config, mainPc, w, ri, ips, si, jobs, wg, wpc, wjob,
                   enq, deq, rangeErrs>>

\* expandCIDR: the loop ends and expandCIDR returns; main starts sending
CIDRLoopExit ==
    /\ mainPc = "cidrloop"
    /\ ~NetContains(cidr.ipnet, cidr.ip)
    /\ ips' = cidrResult(cidr.ips)
    /\ si' = 1
    /\ cidr' = NoCIDR
    /\ mainPc' = "send"
    /\ UNCHANGED <<loadErr, sess>>
    /\ UNCHANGED <<prog, config, w, ri, jobs, wg, wpc, wjob, enq, deq,
                   rangeErrs>>

\* part_000: r has no "/": it is sent as it is
MainSingle ==
    /\ prog = "cidr"
    /\ mainPc = "range"
    /\ ri <= Len(config.Ranges)
    /\ ~Contains(CurRange, "/")
    /\ ips' = <<CurRange>>
    /\ si' = 1
    /\ mainPc' = "send"
    /\ UNCHANGED <<loadErr, sess>>
    /\ UNCHANGED <<prog, config, w, ri, cidr, jobs, wg, wpc, wjob, enq, deq,
                   rangeErrs>>

\* for _, ip := range ips { jobs <- ip }: one send
MainSend ==
    /\ mainPc = "send"
    /\ si <= Len(ips)
    /\ chanCanSend(jobs)
    /\ jobs' = chanSend(jobs, [ip |-> ips[si], id |-> Len(enq) + 1])
    /\ enq' = Append(enq, NewJob(ips[si], ri))
    /\ si' = si + 1
    /\ UNCHANGED <<loadErr, sess>>
    /\ UNCHANGED <<prog, config, mainPc, w, ri, ips, cidr, wg, wpc, wjob, deq,
                   rangeErrs>>

\* every address of the range is sent: on to the next range
MainSendDone ==
    /\ mainPc = "send"
    /\ si > Len(ips)
    /\ ri' = ri + 1
    /\ mainPc' = "range"
    /\ UNCHANGED <<loadErr, sess>>
    /\ UNCHANGED <<prog, config, w, ips, si, cidr, jobs, wg, wpc, wjob, enq,
                   deq, rangeErrs>>

\* the loop over config.Ranges ends; close(jobs)
MainClose ==
    /\ mainPc = "range"
    /\ ri > Len(config.Ranges)
    /\ jobs' = chanClose(jobs)
    /\ mainPc' = "wait"
    /\ UNCHANGED <<loadErr, sess>>
    /\ UNCHANGED <<prog, config, w, ri, ips, si, cidr, wg, wpc, wjob, enq,
                   deq, rangeErrs>>

\* mutant of wgCanPass: main does not wait for the workers
wgCanPassAlways(n) == TRUE

\* wg.Wait() returns when the counter is zero
wgCanPass(n) == n = 0

\* wg.Wait(); log.Println("[INFO] Discovery finalizado!")
MainWait ==
    /\ mainPc = "wait"
    /\ wgCanPass(wg)
    /\ mainPc' = "done"
    /\ UNCHANGED <<loadErr, sess>>
    /\ UNCHANGED <<prog, config, w, ri, ips, si, cidr, jobs, wg, wpc, wjob,
                   enq, deq, rangeErrs>>

----------------------------------------------------------------------------
(* worker *)

\* mutant of rangeOver: the loop ends as soon as the queue is empty
rangeOverWhenEmpty(ch) == ch.buf = <<>>

\* for ip := range jobs ends when jobs is closed and drained
rangeOver(ch) == ch.buf = <<>> /\ ch.closed

\* mutant of afterPing: the identity query is made whatever ping returned
afterPingAlways(b) == "snmp"

\* if ping(ip, ...) { ... }: where the worker goes when ping returns b
afterPing(b) == IF b THEN "snmp" ELSE "recv"

\* mutant of afterSNMP: the continue after a failed query is missing
afterSNMPNoContinue(r) == "zabbix"

\* mutant of afterSNMP: the worker returns after a failed query
afterSNMPReturns(r) == IF r = "ok" THEN "zabbix" ELSE "exited"

\* if err != nil { log; continue }: where the worker goes when getSNMPName
\* returns with outcome r
afterSNMP(r) == IF r = "ok" THEN "zabbix" ELSE "recv"

\* for ip := range jobs: the worker receives the oldest address
WorkerRecv(i) ==
    /\ wpc[i] = "recv"
    /\ jobs.buf # <<>>
    /\ LET job == Head(jobs.buf)
       IN  /\ wjob' = [wjob EXCEPT ![i] = job]
           /\ enq' = [enq EXCEPT ![job.id].recv = @ + 1,
                                 ![job.id].by = @ \cup {i},
                                 ![job.id].st = "Probing"]
           /\ deq' = Append(deq, job.id)
    /\ jobs' = chanRecv(jobs)
    /\ wpc' = [wpc EXCEPT ![i] = "ping"]
    /\ UNCHANGED <<loadErr, sess>>
    /\ UNCHANGED <<prog, config, mainPc, w, ri, ips, si, cidr, wg, rangeErrs>>

\* the range loop ends; the deferred wg.Done() runs and the worker returns
WorkerExit(i) ==
    /\ wpc[i] = "recv"
    /\ rangeOver(jobs)
    /\ wpc' = [wpc EXCEPT ![i] = "exited"]
    /\ wg' = wg - 1
    /\ UNCHANGED <<loadErr, sess>>
    /\ UNCHANGED <<prog, config, mainPc, w, ri, ips, si, cidr, jobs, wjob,
                   enq, deq, rangeErrs>>

\* ping(ip, config.PingTimeout) returns b
WorkerPing(i) ==
    /\ wpc[i] = "ping"
    /\ \E b \in BOOLEAN :
        /\ wpc' = [wpc EXCEPT ![i] = afterPing(b)]
        /\ wjob' = [wjob EXCEPT ![i] = IF afterPing(b) = "recv" THEN NoJob ELSE @]
        /\ enq' = [enq EXCEPT ![wjob[i].id].pings = @ + 1,
                              ![wjob[i].id].pingOk = b,
                              ![wjob[i].id].st =
                                  IF afterPing(b) = "recv" THEN "Unreachable"
                                  ELSE "Querying"]
    /\ UNCHANGED <<loadErr, sess>>
    /\ UNCHANGED <<prog, config, mainPc, w, ri, ips, si, cidr, jobs, wg, deq,
                   rangeErrs>>

\* getSNMPName(ip) returns through one of its four returns
WorkerSNMP(i) ==
    /\ wpc[i] = "snmp"
    /\ \E r \in SNMPOutcomes :
        /\ sess' = sess + getSNMPName(r).opened - getSNMPName(r).closed
        /\ wpc' = [wpc EXCEPT ![i] = afterSNMP(r)]
        /\ wjob' = [wjob EXCEPT ![i] = IF afterSNMP(r) = "recv" THEN NoJob ELSE @]
        /\ enq' = [enq EXCEPT ![wjob[i].id].snmps = @ + 1,
                              ![wjob[i].id].snmpOk = ~getSNMPName(r).err,
                              ![wjob[i].id].st =
                                  IF afterSNMP(r) = "recv" THEN "IdentityFailed"
                                  ELSE "Registering"]
    /\ UNCHANGED loadErr
    /\ UNCHANGED <<prog, config, mainPc, w, ri, ips, si, cidr, jobs, wg, deq,
                   rangeErrs>>

\* _ = createZabbixHost(sysName, ip): the stub logs and returns nil
WorkerZabbix(i) ==
    /\ wpc[i] = "zabbix"
    /\ wpc' = [wpc EXCEPT ![i] = "recv"]
    /\ wjob' = [wjob EXCEPT ![i] = NoJob]
    /\ enq' = [enq EXCEPT ![wjob[i].id].regs = @ + 1,
                          ![wjob[i].id].st = "Registered"]
    /\ UNCHANGED <<loadErr, sess>>
    /\ UNCHANGED <<prog, config, mainPc, w, ri, ips, si, cidr, jobs, wg, deq,
                   rangeErrs>>

Worker(i) ==
    \/ WorkerRecv(i)
    \/ WorkerExit(i)
    \/ WorkerPing(i)
    \/ WorkerSNMP(i)
    \/ WorkerZabbix(i)

----------------------------------------------------------------------------
(* the program as a whole *)

\* the steps of main but the loading of the configuration
MainRun ==
    \/ MainMake
    \/ MainSpawn
    \/ MainSpawnDone
    \/ MainExpandRangeErr
    \/ MainExpandRangeOk
    \/ MainCIDRErr
    \/ MainCIDRStart
    \/ CIDRLoopStep
    \/ CIDRLoopExit
    \/ MainSingle
    \/ MainSend
    \/ MainSendDone
    \/ MainClose
    \/ MainWait

Main ==
    \/ LoadConfig(PipelineConfigs)
    \/ LoadConfigFail
    \/ MainRun

Next == Main \/ \E i \in 1..MaxWorkers : Worker(i)

Spec == Init /\ [][Next]_vars

\* expandRange alone: main loads one dashed-octet input and expands it
InitRange == Init /\ prog = "range"

NextRange ==
    \/ LoadConfig(RangeConfigs)
    \/ MainMake
    \/ MainSpawnDone
    \/ MainExpandRangeErr
    \/ MainExpandRangeOk

SpecRange == InitRange /\ [][NextRange]_vars

\* expandCIDR alone: main loads one CIDR input and expands it
InitCIDR == Init /\ prog = "cidr"

NextCIDR ==
    \/ LoadConfig(CIDRConfigs)
    \/ MainMake
    \/ MainSpawnDone
    \/ MainCIDRErr
    \/ MainCIDRStart
    \/ CIDRLoopStep
    \/ CIDRLoopExit

SpecCIDR == InitCIDR /\ [][NextCIDR]_vars

NextFair ==
    \/ LoadConfig(FairConfigs)
    \/ LoadConfigFail
    \/ MainRun
    \/ \E i \in 1..MaxWorkers : Worker(i)

\* the Go scheduler runs every goroutine that can run, and every ping, SNMP
\* query and registration call returns
FairSpec ==
    /\ Init
    /\ [][NextFair]_vars
    /\ WF_vars(LoadConfig(FairConfigs) \/ LoadConfigFail \/ MainRun)
    /\ \A i \in 1..MaxWorkers : WF_vars(Worker(i))

----------------------------------------------------------------------------
(* Claims about the pipeline *)

Ids == 1..Len(enq)

\* how many times job id sits in the channel's buffer
InBuffer(id) == Cardinality({k \in 1..Len(jobs.buf) : jobs.buf[k].id = id})

\* C1: every address pushed on jobs is received by exactly one worker and
\* processed exactly once: at any time a pushed address is either still in
\* the buffer, once, or was received once, by one worker, which pinged it at
\* most once; the address received is the address pushed; and when main
\* reports the end every pushed address was received and pinged.
C1_ExactlyOnce ==
    /\ \A id \in Ids :
        /\ enq[id].recv + InBuffer(id) = 1
        /\ Cardinality(enq[id].by) = enq[id].recv
        /\ enq[id].pings <= enq[id].recv
    /\ \A k \in 1..Len(jobs.buf) : jobs.buf[k].ip = enq[jobs.buf[k].id].ip
    /\ \A i \in 1..MaxWorkers :
        wjob[i] # NoJob =>
            /\ wjob[i].ip = enq[wjob[i].id].ip
            /\ enq[wjob[i].id].by = {i}
    /\ mainPc = "done" =>
        \A id \in Ids : enq[id].recv = 1 /\ enq[id].pings = 1

\* the run ended, two workers each handled an address, and one address was
\* pushed twice
C1_Witness ==
    /\ mainPc = "done"
    /\ \E a, b \in Ids :
        /\ a # b
        /\ enq[a].ip = enq[b].ip
        /\ enq[a].by # enq[b].by

\* C2: createZabbixHost runs once for an address whose ping returned true
\* and whose getSNMPName returned no error, and never for an address whose
\* ping returned false or whose getSNMPName returned an error.
C2_RegisterOnce ==
    \A id \in Ids :
        /\ enq[id].regs <= 1
        /\ enq[id].regs = 1 =>
            enq[id].pings = 1 /\ enq[id].pingOk /\ enq[id].snmps = 1
                /\ enq[id].snmpOk
        /\ (enq[id].pings = 1 /\ ~enq[id].pingOk) => enq[id].snmps = 0
        /\ enq[id].st \in Terminal =>
            enq[id].regs = IF enq[id].pingOk /\ enq[id].snmpOk THEN 1 ELSE 0
        /\ mainPc = "done" =>
            enq[id].regs = IF enq[id].pingOk /\ enq[id].snmpOk THEN 1 ELSE 0

\* the run ended with one address registered, one unreachable and one whose
\* query failed
C2_Witness ==
    /\ mainPc = "done"
    /\ \E a, b, c \in Ids :
        /\ enq[a].regs = 1
        /\ enq[b].pings = 1 /\ ~enq[b].pingOk /\ enq[b].regs = 0
        /\ enq[c].pingOk /\ enq[c].snmps = 1 /\ ~enq[c].snmpOk
            /\ enq[c].regs = 0

\* C3: main passes wg.Wait and reports the end only when jobs is closed and
\* empty, every worker has exited and every pushed address is in a terminal
\* state.
C3_Barrier ==
    mainPc = "done" =>
        /\ jobs.closed
        /\ jobs.buf = <<>>
        /\ \A i \in 1..MaxWorkers : wpc[i] \in {"none", "exited"}
        /\ \A i \in 1..config.Workers : wpc[i] = "exited"
        /\ \A id \in Ids : enq[id].st \in Terminal

\* the run ended after two workers handled three addresses or more
C3_Witness ==
    /\ mainPc = "done"
    /\ config.Workers = 2
    /\ Len(enq) >= 3
    /\ \E a, b \in Ids : enq[a].by # enq[b].by

\* C4: with one worker or more, once the configuration is loaded the run
\* ends: main pushes every address, closes jobs, the workers exit and
\* wg.Wait returns.
C4_Terminates ==
    (mainPc = "make" /\ config.Workers >= 1) ~> (mainPc = "done")

\* the run ended although main had more addresses to push than jobs holds
C4_Witness ==
    /\ mainPc = "done"
    /\ config.Workers >= 1
    /\ Len(enq) > config.Workers

----------------------------------------------------------------------------
(* Claims about expandCIDR, under SpecCIDR *)

\* the range main is at is the first one and its expansion has just returned
Returned == mainPc = "send" /\ si = 1 /\ ri = 1

\* the first range of the configuration, trimmed
Input == TrimSpace(config.Ranges[1])

\* the input is a CIDR net.ParseCIDR accepts
ValidCIDR(r) == Contains(r, "/") /\ ParseCIDR(r).err = ""

\* the prefix length a valid CIDR names
PrefixLen(r) == DigitsVal(SubSeq(r, IndexOf(r, "/") + 1, Len(r)), 0)

BlockSize(r) == Pow2(AddrBits - PrefixLen(r))

\* an address as a number, and back
IPNum(ip) ==
    ((ip[1] * ByteMod + ip[2]) * ByteMod + ip[3]) * ByteMod + ip[4]

NumIP(n) ==
    [j \in 1..IPv4len |-> (n \div Pow2(ByteBits * (IPv4len - j))) % ByteMod]

\* the number of the network address of a valid CIDR
NetworkNum(r) ==
    (IPNum(ParseCIDR(r).val.ip) \div BlockSize(r)) * BlockSize(r)

\* the addresses network+from .. network+to of the block, ascending
BlockSlice(r, from, to) ==
    [k \in 1..(to - from + 1) |-> IPString(NumIP(NetworkNum(r) + from + k - 1))]

\* C5: for every valid CIDR whose block has more than 2 addresses, prefix 0
\* included, expandCIDR collects the addresses of the block and no more and
\* returns them without the network and the broadcast address, ascending:
\* 2^(bits - prefix) - 2 addresses.
C5_HostsOfBlock ==
    (mainPc \in {"cidrloop", "send"} /\ ri = 1 /\ ValidCIDR(Input)
            /\ BlockSize(Input) > 2) =>
        /\ mainPc = "cidrloop" => Len(cidr.ips) <= BlockSize(Input)
        /\ Returned =>
            /\ Len(ips) = BlockSize(Input) - 2
            /\ ips = BlockSlice(Input, 1, BlockSize(Input) - 2)

\* C6: for every valid CIDR of prefix 31 or 32 (a block of 2 or 1), expandCIDR
\* returns every address of the block, ascending, with none left out.
C6_SmallBlocks ==
    (Returned /\ prog = "cidr" /\ ValidCIDR(Input) /\ BlockSize(Input) <= 2) =>
        /\ Len(ips) = BlockSize(Input)
        /\ ips = BlockSlice(Input, 0, BlockSize(Input) - 1)
        /\ PrefixLen(Input) = AddrBits =>
            ips = <<IPString(ParseCIDR(Input).val.ip)>>

\* expandCIDR returned the 2 addresses of a block of 2 named by its second
\* address
C6_Witness ==
    /\ Returned
    /\ prog = "cidr"
    /\ ValidCIDR(Input)
    /\ PrefixLen(Input) = AddrBits - 1
    /\ IPNum(ParseCIDR(Input).val.ip) % 2 = 1
    /\ Len(ips) = 2

----------------------------------------------------------------------------
(* Claims about expandRange, under SpecRange *)

\* a field that is one integer: no dash, and the integer parser accepts it
IsSingle(f) == ~Contains(f, "-") /\ Atoi(f).ok

\* a field lo-hi: one dash between two integers
IsLoHi(f) ==
    /\ Contains(f, "-")
    /\ Len(Split(f, "-")) = 2
    /\ Atoi(Split(f, "-")[1]).ok
    /\ Atoi(Split(f, "-")[2]).ok

FieldLo(f) == IF IsSingle(f) THEN Atoi(f).val ELSE Atoi(Split(f, "-")[1]).val
FieldHi(f) == IF IsSingle(f) THEN Atoi(f).val ELSE Atoi(Split(f, "-")[2]).val
FieldCount(f) == FieldHi(f) - FieldLo(f) + 1

\* a dashed-octet spec: exactly 4 fields, each one integer or lo-hi
ValidDashed(r) ==
    /\ Len(Split(r, ".")) = 4
    /\ \A j \in 1..4 : IsSingle(Split(r, ".")[j]) \/ IsLoHi(Split(r, ".")[j])

\* ... with lo <= hi in every field
Ascending(r) == \A j \in 1..4 : FieldLo(Split(r, ".")[j]) <= FieldHi(Split(r, ".")[j])

\* the k-th address of the Cartesian product, field 1 outermost
ProductAt(r, k) ==
    LET f == Split(r, ".")
        n2 == FieldCount(f[2])
        n3 == FieldCount(f[3])
        n4 == FieldCount(f[4])
    IN  FormatInt(FieldLo(f[1]) + ((k - 1) \div (n2 * n3 * n4)))
            \o "." \o FormatInt(FieldLo(f[2]) + (((k - 1) \div (n3 * n4)) % n2))
            \o "." \o FormatInt(FieldLo(f[3]) + (((k - 1) \div n4) % n3))
            \o "." \o FormatInt(FieldLo(f[4]) + ((k - 1) % n4))

ProductSize(r) ==
    LET f == Split(r, ".")
    IN  FieldCount(f[1]) * FieldCount(f[2]) * FieldCount(f[3]) * FieldCount(f[4])

NoDuplicates(list) ==
    \A a, b \in 1..Len(list) : a # b => list[a] # list[b]

\* C7: for a spec of exactly 4 fields, each one integer or lo-hi with
\* lo <= hi, expandRange reports no error and returns the Cartesian product
\* of the fields' inclusive value sets, field 1 outermost and field 4
\* innermost, with no duplicates; 10.0.0-2.5 gives 10.0.0.5, 10.0.1.5,
\* 10.0.2.5.
C7_Product ==
    (prog = "range" /\ mainPc \in {"range", "send"} /\ ri >= 1 /\ si <= 1
            /\ ValidDashed(Input) /\ Ascending(Input)) =>
        /\ rangeErrs = {}
        /\ Returned =>
            /\ Len(ips) = ProductSize(Input)
            /\ \A k \in 1..Len(ips) : ips[k] = ProductAt(Input, k)
            /\ NoDuplicates(ips)
            /\ Input = "10.0.0-2.5" => ips = <<"10.0.0.5", "10.0.1.5", "10.0.2.5">>

\* expandRange returned the three addresses of 10.0.0-2.5
C7_Witness ==
    /\ Returned
    /\ prog = "range"
    /\ Input = "10.0.0-2.5"
    /\ Len(ips) = 3

\* four fields, each one integer
SingleValued(r) ==
    /\ Len(Split(r, ".")) = 4
    /\ \A j \in 1..4 : IsSingle(Split(r, ".")[j])

\* a field spelled as Go prints an integer: digits only, no leading zero
Canonical(f) == Len(f) >= 1 /\ AllDigits(f) /\ (Len(f) > 1 => Head(f) # "0")

\* C8 as claimed: for four single-valued octets expandRange returns exactly
\* the input string, whatever spelling of the octets the parser accepts.
C8_LiteralJoin ==
    (Returned /\ prog = "range" /\ SingleValued(Input)) => ips = <<Input>>

\* C8 as amended: for four single-valued octets expandRange returns exactly
\* one address, the four parsed values printed in decimal and joined by
\* dots; it is the input string exactly when every octet is spelled without
\* a sign and without leading zeros.
C8_DecimalJoin ==
    (prog = "range" /\ mainPc \in {"range", "send"} /\ ri >= 1 /\ si <= 1
            /\ SingleValued(Input)) =>
        /\ rangeErrs = {}
        /\ Returned =>
            LET f == Split(Input, ".")
            IN  /\ Len(ips) = 1
                /\ ips[1] = FormatInt(Atoi(f[1]).val) \o "."
                                \o FormatInt(Atoi(f[2]).val) \o "."
                                \o FormatInt(Atoi(f[3]).val) \o "."
                                \o FormatInt(Atoi(f[4]).val)
                /\ (ips[1] = Input) <=> (\A j \in 1..4 : Canonical(f[j]))

\* expandRange returned one address for four single octets of which one is
\* spelled with a leading zero and one with a sign
C8_Witness ==
    /\ Returned
    /\ prog = "range"
    /\ SingleValued(Input)
    /\ \E j \in 1..4 : Head(Split(Input, ".")[j]) = "+"
    /\ \E j \in 1..4 : Split(Input, ".")[j] = "01"
    /\ Len(ips) = 1

----------------------------------------------------------------------------
(* Claims about the ranges main enumerates, under Spec *)

\* the k-th configured range, trimmed
RangeAt(k) == TrimSpace(config.Ranges[k])

\* the ranges main is done with
Handled == {k \in 1..Len(config.Ranges) : k < ri}

\* the addresses main pushed for the k-th range, in order
EnqOf(k) ==
    LET sel == SelectSeq(enq, LAMBDA e : e.range = k)
    IN  [j \in 1..Len(sel) |-> sel[j].ip]

\* what the CIDR grammar says a valid CIDR expands to
CIDRExpansion(r) ==
    IF BlockSize(r) > 2
    THEN BlockSlice(r, 1, BlockSize(r) - 2)
    ELSE BlockSlice(r, 0, BlockSize(r) - 1)

\* a range of neither grammar: wrong field count, non-numeric octet, invalid
\* CIDR
Malformed(r) == ~ValidCIDR(r) /\ ~ValidDashed(r)

\* C9: a malformed range anywhere in the list is logged as an error and
\* none of its text is pushed on jobs, and the well-formed ranges of the
\* variant's grammar before and after it are pushed in full and processed.
C9_MalformedSkipped ==
    /\ \A k \in Handled :
        /\ Malformed(RangeAt(k)) => k \in rangeErrs /\ EnqOf(k) = <<>>
        /\ (prog = "range" /\ ValidDashed(RangeAt(k))) =>
            k \notin rangeErrs /\ EnqOf(k) = expandRange(RangeAt(k)).val
        /\ (prog = "cidr" /\ ValidCIDR(RangeAt(k))) =>
            k \notin rangeErrs /\ EnqOf(k) = CIDRExpansion(RangeAt(k))
    /\ mainPc = "done" => \A id \in Ids : enq[id].st \in Terminal

\* C10: main dispatches on "/": a valid CIDR is pushed as its CIDR expansion
\* and a valid dashed-octet spec as its dashed-octet expansion; neither is
\* logged as an error nor pushed unexpanded.
C10_Dispatch ==
    \A k \in Handled :
        /\ (Contains(RangeAt(k), "/") /\ ValidCIDR(RangeAt(k))) =>
            k \notin rangeErrs /\ EnqOf(k) = CIDRExpansion(RangeAt(k))
        /\ (~Contains(RangeAt(k), "/") /\ ValidDashed(RangeAt(k))) =>
            k \notin rangeErrs /\ EnqOf(k) = expandRange(RangeAt(k)).val

----------------------------------------------------------------------------
(* Claims about configuration errors, the per-address state machine and the
   queue *)

\* C11: a failure of loadConfig is fatal before any work begins: in every
\* state after loadConfig failed the process has ended, no worker was
\* started, the channel was not made, no range was expanded or logged, no
\* address was pushed, received or probed, and main is not at the
\* completion message.
C11_FatalBeforeWork ==
    loadErr =>
        /\ mainPc = "fatal"
        /\ mainPc # "done"
        /\ \A i \in 1..MaxWorkers : wpc[i] = "none" /\ wjob[i] = NoJob
        /\ w = 0 /\ wg = 0
        /\ jobs = makeChan(0)
        /\ ri = 0 /\ ips = <<>> /\ cidr = NoCIDR /\ rangeErrs = {}
        /\ enq = <<>> /\ deq = <<>>

\* loadConfig failed and the process has ended
C11_Witness == loadErr /\ mainPc = "fatal" /\ config = ZeroConfig

\* the transitions of the per-address state machine
Edge ==
    {<<"Queued", "Probing">>,
     <<"Probing", "Unreachable">>, <<"Probing", "Reachable">>,
     <<"Reachable", "Querying">>,
     <<"Querying", "IdentityFailed">>, <<"Querying", "Identified">>,
     <<"Identified", "Registering">>,
     <<"Registering", "Registered">>, <<"Registering", "RegistrationFailed">>}

\* Reachable and Identified are passed in the step that enters them: the
\* worker calls the next stage as soon as the stage before returned
Passed == {"Reachable", "Identified"}

Moves(a, b) ==
    \/ <<a, b>> \in Edge
    \/ \E t \in Passed : <<a, t>> \in Edge /\ <<t, b>> \in Edge

\* what the stages that ran on an address say about its state
StagesAgree(e) ==
    /\ e.pings <= 1 /\ e.snmps <= 1 /\ e.regs <= 1
    /\ e.snmps = 1 => e.pings = 1 /\ e.pingOk
    /\ e.regs = 1 => e.snmps = 1 /\ e.snmpOk
    /\ e.st \in {"Queued", "Probing"} <=> e.pings = 0
    /\ e.st = "Unreachable" <=> (e.pings = 1 /\ ~e.pingOk)
    /\ e.st = "Querying" <=> (e.pings = 1 /\ e.pingOk /\ e.snmps = 0)
    /\ e.st = "IdentityFailed" <=> (e.snmps = 1 /\ ~e.snmpOk)
    /\ e.st = "Registering" <=> (e.snmps = 1 /\ e.snmpOk /\ e.regs = 0)
    /\ e.st \in {"Registered", "RegistrationFailed"} <=> e.regs = 1

\* C12: in every step each address keeps its state or follows a transition
\* of the state machine, a pushed address starts Queued, a terminal state
\* is never left, each of the three stages runs at most once per address,
\* the query runs only after the probe returned true and the registration
\* only after the query succeeded.
C12_StateMachine ==
    [][/\ Len(enq') >= Len(enq)
       /\ \A id \in 1..Len(enq) :
            /\ enq'[id].st # enq[id].st => Moves(enq[id].st, enq'[id].st)
            /\ enq[id].st \in Terminal => enq'[id] = enq[id]
            /\ enq'[id].pings >= enq[id].pings
            /\ enq'[id].snmps >= enq[id].snmps
            /\ enq'[id].regs >= enq[id].regs
       /\ \A id \in (Len(enq) + 1)..Len(enq') : enq'[id].st = "Queued"
       /\ \A id \in 1..Len(enq') : StagesAgree(enq'[id])]_vars

\* three addresses ended in the three terminal states the code reaches
C12_Witness ==
    /\ Len(enq) >= 3
    /\ \E a, b, c \in Ids :
        /\ enq[a].st = "Unreachable"
        /\ enq[b].st = "IdentityFailed"
        /\ enq[c].st = "Registered" /\ enq[c].regs = 1

\* the addresses that ended in a failure
Failed == {id \in Ids : enq[id].st \in {"Unreachable", "IdentityFailed",
                                        "RegistrationFailed"}}

\* the terminal state the outcomes of an address's own stages give
OutcomeState(e) ==
    IF ~e.pingOk THEN "Unreachable"
    ELSE IF ~e.snmpOk THEN "IdentityFailed"
    ELSE "Registered"

\* the workers that hold address id before or after a step
Holders(id) == {i \in 1..MaxWorkers : wjob[i].id = id \/ wjob'[i].id = id}

\* C13: per-address failures are isolated: the worker that ends an address
\* in any terminal state goes on to receive the next queue item, a worker
\* exits only from its receive and only when the queue is closed and
\* drained, an address's record changes only in a step of the worker that
\* holds it, a terminal state is the one the address's own outcomes give,
\* and once an address has failed the run still gets to its end with every
\* pushed address terminal.
C13_Isolation ==
    /\ [][/\ \A i \in 1..MaxWorkers :
              /\ (/\ wpc[i] \in {"ping", "snmp", "zabbix"}
                  /\ wpc'[i] # wpc[i]
                  /\ enq'[wjob[i].id].st \in Terminal) => wpc'[i] = "recv"
              /\ (wpc'[i] = "exited" /\ wpc[i] # "exited") =>
                    wpc[i] = "recv" /\ rangeOver(jobs)
          /\ \A id \in 1..Len(enq) :
              enq'[id] # enq[id] => Holders(id) # {}]_vars
    /\ [](\A id \in Ids :
            enq[id].st \in Terminal => enq[id].st = OutcomeState(enq[id]))
    /\ (Failed # {}) ~>
            (mainPc = "done" /\ \A id \in Ids : enq[id].st \in Terminal)

\* a worker ended one address in a failure and afterwards handled another
C13_Witness ==
    \E i \in 1..MaxWorkers : \E a, b \in Ids :
        /\ a < b
        /\ a \in Failed
        /\ enq[a].by = {i} /\ enq[b].by = {i}
        /\ enq[b].st \in Terminal
        /\ \E c \in Ids : enq[c].st = "Registered"

\* what the producer pushes for its k-th range once it is done with it
PushedFor(k) ==
    IF k \in rangeErrs THEN <<>>
    ELSE IF prog = "range" THEN expandRangeOf[RangeAt(k)].val
    ELSE IF Contains(RangeAt(k), "/") THEN CIDRExpansion(RangeAt(k))
    ELSE <<RangeAt(k)>>

\* C14: close(jobs) runs only on the open queue (so exactly once), and only
\* when the producer is through config.Ranges with every address of every
\* range pushed; the queue stays closed; nothing is sent on the closed
\* queue; a worker exits only when the queue is closed and empty; and main
\* is past the close exactly when the queue is closed.
C14_CloseOnce ==
    /\ [][/\ (mainPc = "range" /\ mainPc' = "wait") =>
                ~jobs.closed /\ jobs'.closed
          /\ (~jobs.closed /\ jobs'.closed) =>
                /\ mainPc = "range" /\ ri > Len(config.Ranges)
                /\ \A k \in 1..Len(config.Ranges) : EnqOf(k) = PushedFor(k)
                /\ Len(enq) = Len(deq) + Len(jobs.buf)
          /\ jobs.closed =>
                /\ jobs'.closed
                /\ enq' # enq => Len(enq') = Len(enq)
                /\ Len(jobs'.buf) <= Len(jobs.buf)
          /\ \A i \in 1..MaxWorkers :
                (wpc'[i] = "exited" /\ wpc[i] # "exited") =>
                    jobs.closed /\ jobs.buf = <<>>]_vars
    /\ [](jobs.closed <=> mainPc \in {"wait", "done"})
    /\ [](\A i \in 1..MaxWorkers :
            wpc[i] = "exited" => jobs.closed /\ jobs.buf = <<>>)

\* the queue is closed with addresses still in it, one worker waits to
\* receive and no worker has exited
C14_Witness ==
    /\ jobs.closed
    /\ Len(jobs.buf) >= 2
    /\ Len(config.Ranges) = MaxRanges
    /\ \E i \in 1..MaxWorkers : wpc[i] = "recv"
    /\ \A i \in 1..MaxWorkers : wpc[i] # "exited"

\* the producer is at a send: it has an address of the current range to push
AtSend == mainPc = "send" /\ si <= Len(ips)

\* C15: once made, jobs has capacity config.Workers and never holds more
\* than that many addresses; an address is pushed only in a step that starts
\* with fewer than config.Workers addresses buffered; and while the buffer
\* is full the producer's send is not enabled.
C15_Bounded ==
    /\ [](mainPc \notin {"load", "make", "fatal"} =>
            /\ jobs.cap = config.Workers
            /\ Len(jobs.buf) \in 0..config.Workers
            /\ (AtSend /\ Len(jobs.buf) = config.Workers) => ~ENABLED MainSend
            /\ (AtSend /\ Len(jobs.buf) < config.Workers) => ENABLED MainSend)
    /\ [][Len(enq') > Len(enq) =>
            /\ Len(jobs.buf) < config.Workers
            /\ Len(jobs'.buf) = Len(jobs.buf) + 1]_vars

\* the queue of a pool of MaxWorkers workers is full and the producer has
\* another address to send
C15_Witness ==
    /\ config.Workers = MaxWorkers
    /\ Len(jobs.buf) = config.Workers
    /\ AtSend
    /\ ~ENABLED MainSend

\* C16: addresses are pushed range by range in the order of config.Ranges
\* and, within a range, in the order the expansion returned them; the
\* addresses received, over all workers, are received in the order they
\* were pushed, and the buffer holds the ones not yet received in that
\* order.
C16_Fifo ==
    /\ \A a, b \in Ids : a < b => enq[a].range <= enq[b].range
    /\ \A k \in 1..Len(config.Ranges) :
        EnqOf(k) = IF mainPc \in {"load", "make", "spawn", "fatal"} \/ k > ri
                        THEN <<>>
                   ELSE IF k < ri THEN PushedFor(k)
                   ELSE IF mainPc = "send" THEN SubSeq(ips, 1, si - 1)
                   ELSE <<>>
    /\ deq = [k \in 1..Len(deq) |-> k]
    /\ Len(jobs.buf) = Len(enq) - Len(deq)
    /\ \A k \in 1..Len(jobs.buf) : jobs.buf[k].id = Len(deq) + k

\* the address pushed second is through all its stages while the address
\* pushed first, received first, is still being handled
C16_Witness ==
    /\ Len(enq) >= 3
    /\ Len(deq) >= 2
    /\ deq[1] = 1 /\ deq[2] = 2
    /\ enq[2].st \in Terminal
    /\ enq[1].st \notin Terminal
    /\ enq[1].range # enq[3].range

Produced(r) ==
    IF prog = "range"
    THEN IF expandRangeOf[r].err = "" THEN expandRangeOf[r].val ELSE <<>>
    ELSE IF ~Contains(r, "/") THEN <<r>>
    ELSE IF ParseCIDROf[r].err = "" THEN CIDRExpansion(r)
    ELSE <<>>

\* some range of the configuration produces an address
HasAddresses == \E k \in 1..Len(config.Ranges) : Produced(RangeAt(k)) # <<>>

\* C18: with config.Workers = 0 the pool is built all the same: the queue
\* is unbuffered, no worker is started and nothing is ever pushed; if some
\* range produces an address the producer gets to its first send and no
\* step is possible from there, the queue is never closed and main never
\* gets to wg.Wait or to its end; if no range produces an address main gets
\* to its end.
C18_ZeroWorkers ==
    /\ [](config.Workers = 0 /\ mainPc \notin {"load", "make", "fatal"} =>
            /\ jobs.cap = 0
            /\ \A i \in 1..MaxWorkers : wpc[i] = "none"
            /\ enq = <<>>
            /\ HasAddresses => ~jobs.closed /\ mainPc \notin {"wait", "done"}
            /\ AtSend => ~ENABLED NextFair)
    /\ (mainPc = "make" /\ config.Workers = 0 /\ HasAddresses) ~>
            [](AtSend /\ enq = <<>> /\ ~jobs.closed)
    /\ (mainPc = "make" /\ config.Workers = 0 /\ ~HasAddresses) ~>
            (mainPc = "done")

\* without workers the producer stands at the first send of its second
\* range, the first range having been an error
C18_Witness ==
    /\ mainPc # "load" /\ config.Workers = 0
    /\ AtSend /\ si = 1 /\ ri = 2
    /\ rangeErrs = {1}
    /\ ~ENABLED NextFair

----------------------------------------------------------------------------
(* Further claims about expandCIDR, under SpecCIDR, and about expandRange *)

\* C19: for every valid CIDR, prefix 0 and blocks that end at the highest
\* address included, the enumeration loop of expandCIDR leaves the block
\* after exactly block-size iterations: while it runs it has made at most
\* that many, and its condition ipnet.Contains(ip) holds exactly as long as
\* it has made fewer.
C19_LoopLeavesBlock ==
    (mainPc = "cidrloop" /\ ri = 1 /\ ValidCIDR(Input)) =>
        /\ Len(cidr.ips) <= BlockSize(Input)
        /\ NetContains(cidr.ipnet, cidr.ip) <=>
                Len(cidr.ips) < BlockSize(Input)

\* a dashed-octet spec with lo > hi in some field
Inverted(r) == ValidDashed(r) /\ ~Ascending(r)

\* the fields lo-hi of r with lo > hi
InvertedFields(r) ==
    {Split(r, ".")[j] : j \in {i \in 1..4 : FieldLo(Split(r, ".")[i])
                                                > FieldHi(Split(r, ".")[i])}}

\* the ranges of the configurations that are inverted, as main passes them on
InvertedSpecs ==
    {r \in {TrimSpace(x) : x \in FairRangeSpecsOf("range")} : Inverted(r)}

\* what expandOctet and expandRange return for them
InvertedExpandEmpty ==
    \A r \in InvertedSpecs :
        /\ \A f \in InvertedFields(r) : expandOctet(f) = Ok(<<>>)
        /\ expandRangeOf[r] = Ok(<<>>)

\* C20: a field lo-hi with lo > hi is no format error: expandOctet returns
\* no value and a nil error for it, expandRange returns no address and a
\* nil error for the range, the producer logs no error and pushes nothing
\* for it, sends nothing while it is at it, and when it is through the list
\* every other range has been pushed as its own expansion says.
C20_InvertedEmpty ==
    /\ InvertedExpandEmpty
    /\ prog = "range" =>
        \A k \in 1..Len(config.Ranges) :
            RangeAt(k) \in InvertedSpecs =>
                /\ k \notin rangeErrs
                /\ EnqOf(k) = <<>>
                /\ (mainPc = "send" /\ ri = k) =>
                        ips = <<>> /\ ~ENABLED MainSend /\ ENABLED MainSendDone
                /\ ri > Len(config.Ranges) =>
                        \A j \in 1..Len(config.Ranges) : EnqOf(j) = PushedFor(j)

\* the list is an inverted range and then a range of two addresses; main is
\* at its end and the two addresses went through the pipeline
C20_Witness ==
    /\ prog = "range"
    /\ mainPc = "done"
    /\ Len(config.Ranges) = 2
    /\ RangeAt(1) \in InvertedSpecs
    /\ rangeErrs = {}
    /\ Len(EnqOf(2)) = 2
    /\ \A id \in Ids : enq[id].st \in Terminal
====
